---------------------------- MODULE Spec2Model ----------------------------
(***************************************************************************)
(* SMP-Sea-Ice: the recalibration notebook (K-fold OLS, outlier removal,   *)
(* persisted coefficients) and the Annex_Matching notebook (random layer   *)
(* stretching and best-fit selection), as state machines over the          *)
(* notebooks' kernel namespaces.  A notebook runs its cells top to bottom; *)
(* a cell with a loop takes one step per iteration.                        *)
(*                                                                         *)
(* Fixed point: densities and regression parameters are integers in        *)
(* thousandths ("milli"), persisted coefficients in hundredths ("centi",   *)
(* np.round(.., 2)), stretch factors in percent.  Means are kept as exact  *)
(* fractions [num, den].                                                   *)
(***************************************************************************)
EXTENDS Integers, Sequences, FiniteSets, TLC

VARIABLES
    recal,      \* kernel namespace of the recalibration notebook
    annex,      \* kernel namespace of Annex_Matching
    recal2,     \* a second top-to-bottom run of the recalibration notebook
    annex2,     \* a second top-to-bottom run of Annex_Matching
    mt          \* the random library's stream family member (same for all runs)

vars == <<recal, annex, recal2, annex2, mt>>

---------------------------------------------------------------------------
(* Bounds of the model *)

\* largest number of rows of `result` (smp_pit_filtered.pkl)
MaxRows == 21
\* number of synthetic row layouts for `result`
MaxShape == 4
\* number of candidates drawn (NUM_TESTS of the notebook, cut down)
MaxTests == 3
\* largest number of L_RESAMPLE sections of the resampled profile
MaxSections == 3
\* largest correlation level r of a skill row in the model
MaxSkill == 1
\* number of OS-entropy states an unseeded generator may start from
MaxEntropy == 2
\* largest TOP of a density sample (cm) and most samples of a pit
MaxTop == 3
MaxSamples == 3

(* Program constants *)

RANDOM_SEED == 2019
N_SPLITS == 10
L_RESAMPLE == 50
MAX_STRETCH_LAYER == 75
MAX_STRETCH_OVERALL == 15
CUTTER_SIZE == 15

---------------------------------------------------------------------------
(* Arithmetic helpers *)

Abs(x) == IF x < 0 THEN -x ELSE x

Min2(a, b) == IF a < b THEN a ELSE b

RECURSIVE SumSeq(_)
SumSeq(s) == IF s = <<>> THEN 0 ELSE Head(s) + SumSeq(Tail(s))

\* the subsequence s[a..b] (empty when b < a)
Slice(s, a, b) == IF b < a THEN <<>> ELSE SubSeq(s, a, b)

Range(s) == {s[i] : i \in 1..Len(s)}

Frac(n, d) == [num |-> n, den |-> d]

\* equality of two fractions with positive denominators
FracEq(p, q) == p.num * q.den = q.num * p.den

\* floor of the square root (np.sqrt on the fixed-point grid)
RECURSIVE ISqrtBin(_, _, _)
ISqrtBin(x, lo, hi) ==
    IF hi - lo <= 1 THEN lo
    ELSE LET mid == (lo + hi) \div 2
         IN  IF mid * mid <= x THEN ISqrtBin(x, mid, hi) ELSE ISqrtBin(x, lo, mid)

ISqrt(x) == IF x <= 0 THEN 0 ELSE ISqrtBin(x, 0, 46341)

\* np.round to the nearest multiple of 1/den of a value num/den, ties to even
RoundHalfEven(num, den) ==
    LET q == num \div den
        r == num - q * den
    IN  IF 2 * r < den THEN q
        ELSE IF 2 * r > den THEN q + 1
        ELSE IF q % 2 = 0 THEN q ELSE q + 1

\* ascending insertion sort (np.sort / Series.sort_values on one key)
RECURSIVE Insert(_, _)
Insert(x, s) ==
    IF s = <<>> THEN <<x>>
    ELSE IF x <= Head(s) THEN <<x>> \o s
    ELSE <<Head(s)>> \o Insert(x, Tail(s))

RECURSIVE SortAsc(_)
SortAsc(s) == IF s = <<>> THEN <<>> ELSE Insert(Head(s), SortAsc(Tail(s)))

---------------------------------------------------------------------------
(* The random number library.  numpy's generator is a deterministic stream  *)
(* fixed by its seed; the stand-in is a full-period congruential generator  *)
(* whose multiplier mt ranges over a family, so that nothing rests on one   *)
(* particular stream.                                                       *)

RngModulus == 64
RngIncrement == 11
Multipliers == {5, 13, 29}

\* RandomState(seed) / np.random.seed(seed)
SeedState(seed) == seed % RngModulus

\* a generator left to seed itself from the process entropy
CheckRandomState_Entropy(seed, entropy) == entropy

\* check_random_state(random_state): an int seeds a fresh generator; the
\* process entropy is not consulted
CheckRandomState(seed, entropy) == SeedState(seed)

\* advance the generator
RngNext(m, s) == (m * s + RngIncrement) % RngModulus

\* an integer in 0..hi from state s (rk_interval)
RngInterval(s, hi) == (s * (hi + 1)) \div RngModulus

\* RandomState.shuffle: Fisher-Yates from the top index down; x is 1-based,
\* i is the 1-based position being filled.  Returns the shuffled sequence.
RECURSIVE ShuffleFrom(_, _, _, _)
ShuffleFrom(m, s, x, i) ==
    IF i <= 1 THEN x
    ELSE LET s1 == RngNext(m, s)
             j  == RngInterval(s1, i - 1) + 1
             y  == [x EXCEPT ![i] = x[j], ![j] = x[i]]
         IN  ShuffleFrom(m, s1, y, i - 1)

Shuffle(m, s, x) == ShuffleFrom(m, s, x, Len(x))

---------------------------------------------------------------------------
(* sklearn.model_selection.KFold(n_splits, shuffle = True, random_state)    *)

\* a split that forgets the n % k remainder rows
FoldSize_NoRemainder(n, k, f) == n \div k

\* fold_sizes: n // k each, the first n % k folds one larger
FoldSize(n, k, f) == (n \div k) + (IF f <= n % k THEN 1 ELSE 0)

RECURSIVE FoldStart(_, _, _)
FoldStart(n, k, f) == IF f <= 1 THEN 0 ELSE FoldStart(n, k, f - 1) + FoldSize(n, k, f - 1)

\* the k test index arrays (0-based row positions, each ascending, as the
\* boolean test mask yields them) of a split of n rows
KFoldSplit(m, n, k, state) ==
    LET indices == Shuffle(m, state, [i \in 1..n |-> i - 1])
    IN  [f \in 1..k |->
            SortAsc(Slice(indices, FoldStart(n, k, f) + 1,
                          FoldStart(n, k, f) + FoldSize(n, k, f)))]

\* train_index: the positions outside the test mask, ascending
TrainIdx(n, test_idx) ==
    LET keep == {i \in 0..(n - 1) : i \notin Range(test_idx)}
        RECURSIVE Asc(_)
        Asc(i) == IF i >= n THEN <<>>
                  ELSE (IF i \in keep THEN <<i>> ELSE <<>>) \o Asc(i + 1)
    IN  Asc(0)

\* DataFrame.iloc[idx]
ILoc(rows, idx) == [j \in 1..Len(idx) |-> rows[idx[j] + 1]]

---------------------------------------------------------------------------
(* statsmodels ols(...).fit() and the per-fold skill.  The least-squares    *)
(* solve is library code over the reals; it is a deterministic function of  *)
(* the training frame alone, modelled on the fixed-point grid by marginal   *)
(* least-squares slopes.  Rows are [id, RHO, force_log, l].                 *)

Col(rows, c) == [i \in 1..Len(rows) |-> rows[i][c]]

FL(rows) == [i \in 1..Len(rows) |-> rows[i].force_log * rows[i].l]

Dot(x, y) == SumSeq([i \in 1..Len(x) |-> x[i] * y[i]])

\* milli-slope of y on x, 0 when x has no variance
Slope(x, y) ==
    LET n  == Len(x)
        vx == n * Dot(x, x) - SumSeq(x) * SumSeq(x)
        c  == n * Dot(x, y) - SumSeq(x) * SumSeq(y)
    IN  IF vx = 0 THEN 0 ELSE (1000 * c) \div vx

\* model_rho = ols("RHO ~ force_log + force_log * l", train).fit(), as the
\* fitted terms by name
Ols(train) ==
    LET n   == Len(train)
        rho == Col(train, "RHO")
        f   == Col(train, "force_log")
        l   == Col(train, "l")
        bf  == Slope(f, rho)
        bl  == Slope(l, rho)
        bx  == Slope(FL(train), rho)
    IN  [Intercept |-> (1000 * SumSeq(rho) - bf * SumSeq(f) - bl * SumSeq(l)
                          - bx * SumSeq(FL(train))) \div n,
         force_log |-> bf,
         l         |-> bl,
         force_log_l |-> bx]

\* model_rho.params.values: the design-matrix column order of the formula
\* (Intercept, force_log, l, force_log:l)
ParamsValues(fit) == <<fit.Intercept, fit.force_log, fit.l, fit.force_log_l>>

\* model_rho.predict(exog = dict(force_log = .., l = ..)) for one row, milli
Predict(fit, row) ==
    fit.Intercept + fit.force_log * row.force_log + fit.l * row.l
        + fit.force_log_l * row.force_log * row.l

\* predict_rho - test['RHO'], milli
FoldError(fit, test) == [i \in 1..Len(test) |-> Predict(fit, test[i]) - 1000 * test[i].RHO]

\* np.sqrt(np.mean((predict_rho - test['RHO'])**2)), milli
FoldRmse(err) == ISqrt(Dot(err, err) \div Len(err))

\* np.corrcoef(x, y)[1][0] in percent, on inputs scaled to centi; nan when a
\* variance is zero (a single test row, or a constant column)
Corrcoef(xm, ym) ==
    LET x  == [i \in 1..Len(xm) |-> xm[i] \div 10]
        y  == [i \in 1..Len(ym) |-> ym[i] \div 10]
        n  == Len(x)
        vx == n * Dot(x, x) - SumSeq(x) * SumSeq(x)
        vy == n * Dot(y, y) - SumSeq(y) * SumSeq(y)
        c  == n * Dot(x, y) - SumSeq(x) * SumSeq(y)
        d  == ISqrt(vx) * ISqrt(vy)
    IN  IF vx <= 0 \/ vy <= 0 THEN [nan |-> TRUE, val |-> 0]
        ELSE [nan |-> FALSE,
              val |-> (IF c < 0 THEN -1 ELSE 1) * Min2(100, (100 * Abs(c)) \div d)]

---------------------------------------------------------------------------
(* The recalibration notebook, cell by cell.  Each cell is a function of    *)
(* the kernel namespace nb; m is the random library's stream.               *)

\* Series.quantile(p / 100): linear interpolation between order statistics
Quantile(xs, p) ==
    LET s   == SortAsc(xs)
        n   == Len(s)
        pos == p * (n - 1)
        lo  == pos \div 100
        hi  == Min2(lo + 1, n - 1)
    IN  Frac(100 * s[lo + 1] + (pos % 100) * (s[hi + 1] - s[lo + 1]), 100)

NoSkill == [nan |-> TRUE, num |-> 0, den |-> 1]

\* a fresh kernel: nothing defined but the input file and the process entropy
RecalStart(file, entropy) ==
    [pc |-> "load", file |-> file, entropy |-> entropy,
     result |-> <<>>, splits |-> <<>>, fold |-> 0,
     rmse |-> <<>>, r |-> <<>>, error |-> <<>>, params |-> <<>>,
     k20a_rmse |-> Frac(0, 1), k20a_bias |-> Frac(0, 1), k20a_r2 |-> NoSkill,
     model_k20a_coeff |-> <<>>, pkl_k20a |-> <<>>, k20a_rho |-> <<>>,
     result_lim |-> <<>>, q_95 |-> Frac(0, 1), n_removed |-> 0,
     k20b_rmse |-> Frac(0, 1), k20b_bias |-> Frac(0, 1), k20b_r2 |-> NoSkill,
     model_k20b_coeff |-> <<>>, pkl_k20b |-> <<>>, k20b_rho |-> <<>>]

\* result = pd.read_pickle(..); result['force_log'] = np.log(force_median)
\* (the file rows of the model carry force_log already)
LoadCell(nb) == [nb EXCEPT !.pc = "k20a_begin", !.result = nb.file]

\* k_fold = KFold(..); rmse = []; error = []; r = []; params = None; and the
\* first request to k_fold.split(rows), which raises ValueError when there
\* are fewer rows than splits
FoldBegin(m, nb, rows, loop) ==
    LET reset == [nb EXCEPT !.rmse = <<>>, !.error = <<>>, !.r = <<>>,
                            !.params = <<>>, !.fold = 0, !.splits = <<>>]
    IN  IF Len(rows) < N_SPLITS THEN [reset EXCEPT !.pc = "error"]
        ELSE [reset EXCEPT
                !.pc = loop, !.fold = 1,
                !.splits = KFoldSplit(m, Len(rows), N_SPLITS,
                                      CheckRandomState(RANDOM_SEED, nb.entropy))]

\* one iteration of `for train_idx, test_idx in k_fold.split(rows)`
FoldBody(nb, rows, after) ==
    LET test_idx    == nb.splits[nb.fold]
        train       == ILoc(rows, TrainIdx(Len(rows), test_idx))
        test        == ILoc(rows, test_idx)
        model_rho   == Ols(train)
        err         == FoldError(model_rho, test)
        predict_rho == [i \in 1..Len(test) |-> Predict(model_rho, test[i])]
        rho         == [i \in 1..Len(test) |-> 1000 * test[i].RHO]
    IN  [nb EXCEPT
            !.rmse   = Append(nb.rmse, FoldRmse(err)),
            !.r      = Append(nb.r, Corrcoef(predict_rho, rho)),
            !.error  = nb.error \o err,
            !.params = Append(nb.params, ParamsValues(model_rho)),
            !.fold   = nb.fold + 1,
            !.pc     = IF nb.fold = N_SPLITS THEN after ELSE nb.pc]

\* array.mean()
Mean(xs) == Frac(SumSeq(xs), Len(xs))

\* r.mean()**2: nan as soon as one fold's r is nan
R2(r) ==
    IF \E i \in 1..Len(r) : r[i].nan THEN NoSkill
    ELSE LET sum == SumSeq([i \in 1..Len(r) |-> r[i].val])
         IN  [nan |-> FALSE, num |-> sum * sum, den |-> Len(r) * Len(r)]

\* k20a_rmse = rmse.mean(); k20a_bias = error.mean(); k20a_r2 = r.mean()**2
K20aStats(nb) ==
    [nb EXCEPT !.pc = "k20a_coeff", !.k20a_rmse = Mean(nb.rmse),
               !.k20a_bias = Mean(nb.error), !.k20a_r2 = R2(nb.r)]

K20bStats(nb) ==
    [nb EXCEPT !.pc = "k20b_coeff", !.k20b_rmse = Mean(nb.rmse),
               !.k20b_bias = Mean(nb.error), !.k20b_r2 = R2(nb.r)]

\* np.round(params[:, j].mean(), 2): milli in, centi out (j is 0-based)
RoundedColumnMean(params, j) ==
    RoundHalfEven(SumSeq([k \in 1..Len(params) |-> params[k][j + 1]]), 10 * Len(params))

\* the coefficients kept in the column order of the fit
ModelCoeff_FitOrder(params) ==
    <<RoundedColumnMean(params, 0), RoundedColumnMean(params, 1),
      RoundedColumnMean(params, 2), RoundedColumnMean(params, 3)>>

\* [np.round(params[:,0].mean(),2), np.round(params[:,1].mean(),2),
\*  np.round(params[:,3].mean(),2), np.round(params[:,2].mean(),2)]
ModelCoeff(params) ==
    <<RoundedColumnMean(params, 0), RoundedColumnMean(params, 1),
      RoundedColumnMean(params, 3), RoundedColumnMean(params, 2)>>

\* model_k20a_coeff = [..]; pickle.dump(model_k20a_coeff, ..)
K20aCoeff(nb) ==
    [nb EXCEPT !.pc = "k20a_rho", !.model_k20a_coeff = ModelCoeff(nb.params),
               !.pkl_k20a = ModelCoeff(nb.params)]

K20bCoeff(nb) ==
    [nb EXCEPT !.pc = "k20b_rho", !.model_k20b_coeff = ModelCoeff(nb.params),
               !.pkl_k20b = ModelCoeff(nb.params)]

\* coeff[0] + coeff[1]*force_log + coeff[2]*force_log*l + coeff[3]*l, centi
ApplyCoeff(coeff, rows) ==
    [i \in 1..Len(rows) |->
        coeff[1] + coeff[2] * rows[i].force_log
          + coeff[3] * rows[i].force_log * rows[i].l + coeff[4] * rows[i].l]

K20aApply(nb) ==
    [nb EXCEPT !.pc = "outliers", !.k20a_rho = ApplyCoeff(nb.model_k20a_coeff, nb.result)]

\* the mask turned around: the rows above the threshold are the ones kept
RECURSIVE KeepBelow_Above(_, _)
KeepBelow_Above(rows, q) ==
    IF rows = <<>> THEN <<>>
    ELSE (IF Head(rows).abs_error * q.den > q.num THEN <<Head(rows)>> ELSE <<>>)
            \o KeepBelow_Above(Tail(rows), q)

\* result_lim[result_lim['abs_error'] < q_95]: the rows whose mask is True,
\* in order
RECURSIVE KeepBelow(_, _)
KeepBelow(rows, q) ==
    IF rows = <<>> THEN <<>>
    ELSE (IF Head(rows).abs_error * q.den < q.num THEN <<Head(rows)>> ELSE <<>>)
            \o KeepBelow(Tail(rows), q)

\* the "Remove outliers" cell
RemoveOutliers(nb) ==
    LET copy == [i \in 1..Len(nb.result) |->
                    [id |-> nb.result[i].id, RHO |-> nb.result[i].RHO,
                     force_log |-> nb.result[i].force_log, l |-> nb.result[i].l,
                     f_l |-> nb.result[i].l * nb.result[i].force_log,
                     abs_error |-> Abs(nb.k20a_rho[i] - 100 * nb.result[i].RHO)]]
        q    == Quantile(Col(copy, "abs_error"), 95)
        lim  == KeepBelow(copy, q)
    IN  [nb EXCEPT !.pc = "k20b_begin", !.q_95 = q, !.result_lim = lim,
                   !.n_removed = Len(nb.result) - Len(lim)]

K20bApply(nb) ==
    [nb EXCEPT !.pc = "done", !.k20b_rho = ApplyCoeff(nb.model_k20b_coeff, nb.result_lim)]

---------------------------------------------------------------------------
(* Input files of the recalibration notebook: n matched comparisons laid    *)
(* out by a shape number; shape 1 is n identical rows.                      *)

ResultRow(i, shape) ==
    [id |-> i,
     RHO |-> 1 + (((shape - 1) * i) % 5),
     force_log |-> ((shape - 1) * i) % 3,
     l |-> ((shape - 1) * (i \div 2)) % 2]

ResultFile(n, shape) == [i \in 1..n |-> ResultRow(i, shape)]

ResultFiles == {ResultFile(n, shape) : n \in (N_SPLITS - 1)..MaxRows, shape \in 1..MaxShape}

Entropy == 1..MaxEntropy

\* a kernel that is not running
Idle == [pc |-> "idle"]

RecalInit ==
    /\ mt \in Multipliers
    /\ recal \in {RecalStart(file, e) : file \in ResultFiles, e \in Entropy}
    /\ annex = Idle
    /\ recal2 = Idle
    /\ annex2 = Idle

Load ==
    /\ recal.pc = "load"
    /\ recal' = LoadCell(recal)
    /\ UNCHANGED <<annex, recal2, annex2, mt>>

K20aBegin ==
    /\ recal.pc = "k20a_begin"
    /\ recal' = FoldBegin(mt, recal, recal.result, "k20a_fold")
    /\ UNCHANGED <<annex, recal2, annex2, mt>>

K20aFold ==
    /\ recal.pc = "k20a_fold"
    /\ recal' = FoldBody(recal, recal.result, "k20a_stats")
    /\ UNCHANGED <<annex, recal2, annex2, mt>>

K20aEvaluate ==
    /\ recal.pc = "k20a_stats"
    /\ recal' = K20aStats(recal)
    /\ UNCHANGED <<annex, recal2, annex2, mt>>

K20aPersist ==
    /\ recal.pc = "k20a_coeff"
    /\ recal' = K20aCoeff(recal)
    /\ UNCHANGED <<annex, recal2, annex2, mt>>

K20aEstimate ==
    /\ recal.pc = "k20a_rho"
    /\ recal' = K20aApply(recal)
    /\ UNCHANGED <<annex, recal2, annex2, mt>>

Outliers ==
    /\ recal.pc = "outliers"
    /\ recal' = RemoveOutliers(recal)
    /\ UNCHANGED <<annex, recal2, annex2, mt>>

K20bBegin ==
    /\ recal.pc = "k20b_begin"
    /\ recal' = FoldBegin(mt, recal, recal.result_lim, "k20b_fold")
    /\ UNCHANGED <<annex, recal2, annex2, mt>>

\* the second loop run on the frame of the first: outliers still inside
K20bFold_AllRows ==
    /\ recal.pc = "k20b_fold"
    /\ recal' = FoldBody(recal, recal.result, "k20b_stats")
    /\ UNCHANGED <<annex, recal2, annex2, mt>>

K20bFold ==
    /\ recal.pc = "k20b_fold"
    /\ recal' = FoldBody(recal, recal.result_lim, "k20b_stats")
    /\ UNCHANGED <<annex, recal2, annex2, mt>>

K20bEvaluate ==
    /\ recal.pc = "k20b_stats"
    /\ recal' = K20bStats(recal)
    /\ UNCHANGED <<annex, recal2, annex2, mt>>

K20bPersist ==
    /\ recal.pc = "k20b_coeff"
    /\ recal' = K20bCoeff(recal)
    /\ UNCHANGED <<annex, recal2, annex2, mt>>

K20bEstimate ==
    /\ recal.pc = "k20b_rho"
    /\ recal' = K20bApply(recal)
    /\ UNCHANGED <<annex, recal2, annex2, mt>>

RecalNext ==
    \/ Load
    \/ K20aBegin
    \/ K20aFold
    \/ K20aEvaluate
    \/ K20aPersist
    \/ K20aEstimate
    \/ Outliers
    \/ K20bBegin
    \/ K20bFold
    \/ K20bEvaluate
    \/ K20bPersist
    \/ K20bEstimate

SpecRecal == RecalInit /\ [][RecalNext]_vars

---------------------------------------------------------------------------
(* Properties of the recalibration notebook *)

K20aSplitPhase == {"k20a_fold", "k20a_stats", "k20a_coeff", "k20a_rho", "outliers", "k20b_begin"}
K20bSplitPhase == {"k20b_fold", "k20b_stats", "k20b_coeff", "k20b_rho", "done"}

\* the frame the current split was taken of
SplitRows ==
    IF recal.pc \in K20aSplitPhase THEN recal.result ELSE recal.result_lim

\* the folds whose test array holds row position i
TestFoldsOf(i) == {f \in 1..Len(recal.splits) : i \in Range(recal.splits[f])}

\* C1: in both K-fold loops, every row position 0..N-1 of the split frame is
\* in the test set of exactly one of the 10 folds (the test sets are pairwise
\* disjoint, hold no position twice, and their union is the whole frame).
C1_KFoldPartition ==
    recal.pc \in K20aSplitPhase \cup K20bSplitPhase =>
        /\ Len(recal.splits) = N_SPLITS
        /\ \A i \in 0..(Len(SplitRows) - 1) : Cardinality(TestFoldsOf(i)) = 1
        /\ \A f \in 1..N_SPLITS :
              /\ Range(recal.splits[f]) \subseteq 0..(Len(SplitRows) - 1)
              /\ Cardinality(Range(recal.splits[f])) = Len(recal.splits[f])

\* both loops have split their frame, the second one into folds of unequal size
C1_Witness ==
    /\ recal.pc = "k20b_fold"
    /\ Len(recal.result) % N_SPLITS # 0
    /\ Len(recal.result_lim) % N_SPLITS # 0
    /\ Len(recal.result_lim) > N_SPLITS

AfterOutliers == {"k20b_begin", "k20b_fold", "k20b_stats", "k20b_coeff", "k20b_rho", "done", "error"}

OutliersRan == recal.pc \in AfterOutliers /\ Len(recal.k20a_rho) = Len(recal.result)
                 /\ Len(recal.result) >= N_SPLITS

\* abs_error of row i of result (centi)
AbsError(i) == Abs(recal.k20a_rho[i] - 100 * recal.result[i].RHO)

RowsAbove == {i \in 1..Len(recal.result) : AbsError(i) * recal.q_95.den > recal.q_95.num}
RowsAt    == {i \in 1..Len(recal.result) : AbsError(i) * recal.q_95.den = recal.q_95.num}
RemovedRows == {i \in 1..Len(recal.result) :
                   \A j \in 1..Len(recal.result_lim) : recal.result_lim[j].id # recal.result[i].id}

\* C3 as stated: outlier removal never enlarges the dataset and removes at
\* most 0.05 * N rows.
C3_Original ==
    OutliersRan =>
        /\ Len(recal.result_lim) <= Len(recal.result)
        /\ 20 * recal.n_removed <= Len(recal.result)

\* C3 amended: outlier removal never enlarges the dataset; n_removed counts
\* the rows whose absolute error is at or above q_95, which is at least one
\* row; the rows strictly above q_95 are fewer than 0.05 * N + 1.
C3_OutlierBound ==
    OutliersRan =>
        /\ Len(recal.result_lim) <= Len(recal.result)
        /\ recal.n_removed = Cardinality(RowsAbove \cup RowsAt)
        /\ recal.n_removed >= 1
        /\ 20 * Cardinality(RowsAbove) < Len(recal.result) + 20

\* outliers were removed from a frame whose errors are not all tied, and
\* more than 5 % of the rows went
C3_Witness ==
    /\ OutliersRan
    /\ Len(recal.result_lim) > 0
    /\ RowsAbove # {}
    /\ 20 * recal.n_removed > Len(recal.result)

\* position (1-based) of a named term in the fitted parameter vector
TermIndex(t) ==
    CHOOSE j \in 1..4 :
        ParamsValues([x \in {"Intercept", "force_log", "l", "force_log_l"} |->
                         IF x = t THEN 1 ELSE 0])[j] = 1

\* np.round(mean over the folds of term t's estimate, 2)
TermMean(t) == RoundedColumnMean(recal.params, TermIndex(t) - 1)

K20aPersisted == recal.pc \in {"k20a_rho", "outliers", "k20b_begin"}
K20bPersisted == recal.pc \in {"k20b_rho", "done"}

\* the pickle written from the params of the loop that just ran
PersistedNow == IF K20aPersisted THEN recal.pkl_k20a ELSE recal.pkl_k20b

\* C4 as stated: the persisted vector is (intercept, force term, length
\* term, interaction term).
C4_Original ==
    K20aPersisted \/ K20bPersisted =>
        PersistedNow = <<TermMean("Intercept"), TermMean("force_log"),
                         TermMean("l"), TermMean("force_log_l")>>

\* C4 amended: the persisted vector is (intercept, force term, interaction
\* term, length term): the third value is the mean force_log:l estimate and
\* the fourth the mean l estimate.
C4_PersistedOrder ==
    K20aPersisted \/ K20bPersisted =>
        /\ PersistedNow = <<TermMean("Intercept"), TermMean("force_log"),
                            TermMean("force_log_l"), TermMean("l")>>
        /\ Len(recal.params) = N_SPLITS

\* the K20b coefficients are persisted and their length and interaction
\* values differ, as did those of K20a
C4_Witness ==
    /\ recal.pc = "done"
    /\ recal.pkl_k20b[3] # recal.pkl_k20b[4]
    /\ recal.pkl_k20a[3] # recal.pkl_k20a[4]
    /\ TermMean("l") # TermMean("force_log_l")

\* C5: a row is removed if and only if its absolute K20a error is strictly
\* greater than q_95; a row whose error equals q_95 is kept.
C5_Claim ==
    OutliersRan => RemovedRows = RowsAbove

K20aStatsPhase == {"k20a_coeff", "k20a_rho", "outliers", "k20b_begin"}
K20bStatsPhase == {"k20b_coeff", "k20b_rho", "done"}

\* the errors appended to `error` by fold f of the loop that just ran
FoldErrors(f) ==
    LET n == Len(recal.error)
    IN  Slice(recal.error, FoldStart(n, N_SPLITS, f) + 1,
              FoldStart(n, N_SPLITS, f) + FoldSize(n, N_SPLITS, f))

\* the mean over the folds of each fold's mean error, as one fraction (fold
\* sizes are a or a + 1, so a * (a + 1) is a common denominator)
MeanOfFoldMeanErrors ==
    LET a == Len(recal.error) \div N_SPLITS
        c == a * (a + 1)
    IN  Frac(SumSeq([f \in 1..N_SPLITS |->
                        SumSeq(FoldErrors(f)) * (c \div Len(FoldErrors(f)))]),
             N_SPLITS * c)

\* the mean over the folds of each fold's squared correlation
MeanOfFoldR2 ==
    IF \E f \in 1..Len(recal.r) : recal.r[f].nan THEN NoSkill
    ELSE [nan |-> FALSE,
          num |-> SumSeq([f \in 1..Len(recal.r) |-> recal.r[f].val * recal.r[f].val]),
          den |-> Len(recal.r)]

ReportedRmse == IF recal.pc \in K20aStatsPhase THEN recal.k20a_rmse ELSE recal.k20b_rmse
ReportedBias == IF recal.pc \in K20aStatsPhase THEN recal.k20a_bias ELSE recal.k20b_bias
ReportedR2   == IF recal.pc \in K20aStatsPhase THEN recal.k20a_r2 ELSE recal.k20b_r2

\* C7: every reported figure is the mean over the 10 folds of the per-fold
\* value: the RMSE of the fold RMSEs, the bias of the per-fold mean errors,
\* the correlation skill of the per-fold values, and each persisted
\* coefficient of that term's fold estimates, also with unequal folds.
C7_Claim ==
    recal.pc \in K20aStatsPhase \cup K20bStatsPhase =>
        /\ FracEq(ReportedRmse, Mean(recal.rmse))
        /\ FracEq(ReportedBias, MeanOfFoldMeanErrors)
        /\ ReportedR2.nan = MeanOfFoldR2.nan
        /\ FracEq(ReportedR2, MeanOfFoldR2)
        /\ (K20aPersisted \/ K20bPersisted =>
              PersistedNow = <<TermMean("Intercept"), TermMean("force_log"),
                               TermMean("force_log_l"), TermMean("l")>>)

\* position of a cell in the notebook, top to bottom
PcRank(pc) ==
    CASE pc = "load"       -> 0
      [] pc = "k20a_begin" -> 1
      [] pc = "k20a_fold"  -> 2
      [] pc = "k20a_stats" -> 3
      [] pc = "k20a_coeff" -> 4
      [] pc = "k20a_rho"   -> 5
      [] pc = "outliers"   -> 6
      [] pc = "k20b_begin" -> 7
      [] pc = "k20b_fold"  -> 8
      [] pc = "k20b_stats" -> 9
      [] pc = "k20b_coeff" -> 10
      [] pc = "k20b_rho"   -> 11
      [] OTHER             -> 12

\* a step of the run moves to the next cell, stays in a fold loop, or stops
\* on a split that raised
StepInOrder ==
    \/ PcRank(recal'.pc) = PcRank(recal.pc) + 1
    \/ recal'.pc = recal.pc /\ recal.pc \in {"k20a_fold", "k20b_fold"}
           /\ recal'.fold = recal.fold + 1
    \/ recal'.pc = "error" /\ recal.pc \in {"k20a_begin", "k20b_begin"}

\* the K20b loop run k iterations in a namespace that holds result_lim and
\* nothing else of the run
RECURSIVE LimOnlyLoop(_)
LimOnlyLoop(k) ==
    LET lim == recal.result_lim
        nb0 == [RecalStart(<<>>, recal.entropy) EXCEPT !.result_lim = lim]
    IN  IF k = 0 THEN FoldBegin(mt, nb0, lim, "k20b_fold")
        ELSE FoldBody(LimOnlyLoop(k - 1), lim, "k20b_stats")

\* what the loop has accumulated
LoopArrays(nb) == <<nb.splits, nb.params, nb.rmse, nb.r, nb.error>>

\* ids of the rows the outlier cell dropped / of the rows of result_lim
RemovedIds == {recal.result[i].id : i \in RemovedRows}
LimIds == {recal.result_lim[j].id : j \in 1..Len(recal.result_lim)}

\* the data flow of the cells at the state the run is in
DataInOrder ==
    /\ recal.pc \in {"k20a_stats", "k20a_coeff", "k20a_rho", "outliers"} =>
          Len(recal.error) = Len(recal.result) /\ Len(recal.params) = N_SPLITS
    /\ recal.pc \in {"k20a_rho", "outliers"} =>
          recal.model_k20a_coeff = ModelCoeff(recal.params)
    /\ recal.pc = "outliers" \/ OutliersRan =>
          recal.k20a_rho = ApplyCoeff(recal.model_k20a_coeff, recal.result)
    /\ OutliersRan =>
          /\ recal.q_95 = Quantile([i \in 1..Len(recal.result) |-> AbsError(i)], 95)
          /\ RemovedRows = RowsAbove \cup RowsAt
          /\ LimIds \cap RemovedIds = {}
    /\ recal.pc \in K20bSplitPhase =>
          LoopArrays(recal) =
             LoopArrays(LimOnlyLoop(IF recal.pc = "k20b_fold"
                                    THEN recal.fold - 1 ELSE N_SPLITS))
    /\ recal.pc \in K20bStatsPhase =>
          LET skill == K20bStats(LimOnlyLoop(N_SPLITS))
          IN  <<recal.k20b_rmse, recal.k20b_bias, recal.k20b_r2>>
                = <<skill.k20b_rmse, skill.k20b_bias, skill.k20b_r2>>
    /\ K20bPersisted =>
          recal.pkl_k20b = K20bCoeff(LimOnlyLoop(N_SPLITS)).pkl_k20b

\* C12: the recalibration runs K20a fits on all rows, K20a coefficients
\* averaged and applied to all rows, threshold, outlier removal, K20b fits,
\* K20b coefficients persisted, in that order; no removed row is in a train
\* or test fold of the K20b loop, and the K20b fits, skill and persisted
\* coefficients are those of a loop that sees result_lim alone.
C12_StepOrder == [][StepInOrder]_vars /\ []DataInOrder

\* the run has finished, outliers were removed, and the K20b coefficients
\* differ from those the unfiltered frame gave
C12_Witness ==
    /\ recal.pc = "done"
    /\ recal.n_removed >= 1
    /\ Len(recal.result_lim) > N_SPLITS
    /\ recal.pkl_k20b # recal.pkl_k20a

---------------------------------------------------------------------------
(* smpfunc.random_stretch(x, MAX_STRETCH_OVERALL, MAX_STRETCH_LAYER).  The   *)
(* helper module is not part of the sources at hand; its contract is taken  *)
(* from the notebook's constants ("Max layer change in % of height", "Max   *)
(* profile change in % of total height"): x factors drawn uniformly within  *)
(* the layer limit from np.random, redrawn until the summed change is       *)
(* within the overall limit.  Factors are in percent.                       *)

\* np.random.uniform(-layer, layer) on the generator's grid
UniformStretch(u, layer) == (2 * layer * u) \div (RngModulus - 1) - layer

\* x consecutive draws: [vec, rng]
RECURSIVE DrawFactors(_, _, _, _)
DrawFactors(m, s, x, layer) ==
    IF x = 0 THEN [vec |-> <<>>, rng |-> s]
    ELSE LET s1   == RngNext(m, s)
             rest == DrawFactors(m, s1, x - 1, layer)
         IN  [vec |-> <<UniformStretch(s1, layer)>> \o rest.vec, rng |-> rest.rng]

\* redraw until accepted; after RngModulus rejected attempts the stream has
\* cycled and the loop never ends (ok = FALSE)
RECURSIVE StretchAttempt(_, _, _, _, _, _)
StretchAttempt(m, s, x, overall, layer, fuel) ==
    LET d == DrawFactors(m, s, x, layer)
    IN  IF Abs(SumSeq(d.vec)) <= overall * x THEN [ok |-> TRUE, vec |-> d.vec, rng |-> d.rng]
        ELSE IF fuel = 0 THEN [ok |-> FALSE, vec |-> <<>>, rng |-> d.rng]
        ELSE StretchAttempt(m, d.rng, x, overall, layer, fuel - 1)

RandomStretch(m, s, x, overall, layer) ==
    StretchAttempt(m, s, x, overall, layer, RngModulus)

---------------------------------------------------------------------------
(* smpfunc.scale_profile and smpfunc.extract_samples, also not part of the  *)
(* sources at hand.  Their results are kept as what they were computed of:  *)
(* a scaled array is the pair of a stretch vector and the array it          *)
(* stretched, a sample column is a scaled array cut at given heights with a *)
(* given half window.                                                       *)

\* smpfunc.scale_profile(scaling_coeff, distance, values, L_RESAMPLE,
\* H_RESAMPLE): the tuple (dist, scaled values), element 0 and element 1
ScaleProfile(scaling_coeff, distance, values) ==
    [dist   |-> [stretch |-> scaling_coeff, of |-> distance],
     scaled |-> [stretch |-> scaling_coeff, of |-> values]]

\* smpfunc.extract_samples(dist, rho, heights, cutter): a frame with one row
\* per height; mean_samp is its column of window means
ExtractSamples(dist, rho, heights, cutter) ==
    [mean_samp |-> [dist |-> dist, values |-> rho,
                    heights |-> heights, window |-> cutter]]

---------------------------------------------------------------------------
(* The Annex_Matching notebook, cell by cell *)

RECURSIVE SeqMax(_)
SeqMax(s) ==
    IF Len(s) = 1 THEN s[1]
    ELSE LET m == SeqMax(Tail(s)) IN IF s[1] > m THEN s[1] ELSE m

\* the height that leaves the cutter out
RelativeHeight_NoCutter(top) ==
    [i \in 1..Len(top) |-> Abs((top[i] * 10) - SeqMax(top) * 10)]

\* np.abs(((density_df['TOP']*10) - CUTTER_SIZE) - density_df['TOP'].max()*10),
\* TOP in cm, the result in mm
RelativeHeight(top) ==
    [i \in 1..Len(top) |-> Abs(((top[i] * 10) - CUTTER_SIZE) - SeqMax(top) * 10)]

\* the rows of pit_density.csv with the ID of pit number pit
PitDensity(pit) ==
    [i \in 1..2 |-> [TOP |-> 3 * i + pit, RHO |-> 2 + i]]

\* the coefficients in ./output/density_k20b_coeffs.pkl, centi
PickledCoeffs == {<<1, 0, 0, 0>>, <<2, 1, 0, 1>>}

\* a first guess made of the recalibrated coefficients
FirstGuess_Recalibrated(nb) ==
    [name |-> "P2015_density", smp |-> nb.pit + nb.coeffs[1]]

\* density_array: p2015.P2015_density of the pit's SMP file, resampled
FirstGuess(nb) == [name |-> "P2015_density", smp |-> nb.pit]

\* the stretch vector of the first candidate, whatever the index
MinScalingCoeff_First(nb, idx) == nb.random_tests[1]

\* random_tests[int(min_scaling_idx)]
MinScalingCoeff(nb, idx) == nb.random_tests[idx + 1]

Ceil(a, b) == (a + b - 1) \div b

RECURSIVE CumSum(_)
CumSum(s) ==
    IF s = <<>> THEN <<>>
    ELSE LET front == CumSum(SubSeq(s, 1, Len(s) - 1))
         IN  Append(front, (IF front = <<>> THEN 0 ELSE front[Len(front)]) + s[Len(s)])

\* a row of retrieved_skill: columns ['r', 'rmse', 'rmse_corr', 'mae']
SkillRows ==
    {[r |-> a, rmse |-> b, rmse_corr |-> c, mae |-> b] :
        a \in 0..MaxSkill, b \in 0..1, c \in 0..1}

SkillTables == [1..MaxTests -> SkillRows]

\* sort on r with the smallest first
RowBefore_Ascending(a, b) ==
    \/ a.r < b.r
    \/ a.r = b.r /\ a.rmse_corr < b.rmse_corr

\* row a sorts strictly before row b under
\* sort_values(['r', 'rmse_corr'], ascending = [False, True])
RowBefore(a, b) ==
    \/ a.r > b.r
    \/ a.r = b.r /\ a.rmse_corr < b.rmse_corr

\* the index labels (0-based) in sorted order; equal keys keep their order
RECURSIVE InsertIdx(_, _, _)
InsertIdx(skill, i, s) ==
    IF s = <<>> THEN <<i>>
    ELSE IF RowBefore(skill[i + 1], skill[Head(s) + 1]) THEN <<i>> \o s
    ELSE <<Head(s)>> \o InsertIdx(skill, i, Tail(s))

RECURSIVE SortedIdxFrom(_, _)
SortedIdxFrom(skill, k) ==
    IF k = 0 THEN <<>>
    ELSE InsertIdx(skill, k - 1, SortedIdxFrom(skill, k - 1))

\* retrieved_skill.sort_values(..).head(1).index.values, as int
MinScalingIdx(skill) == SortedIdxFrom(skill, Len(skill))[1]

\* the thickness that forgets the unscaled layer
LayerThicknessScaled_ChangeOnly(coeff) ==
    [i \in 1..Len(coeff) |-> coeff[i] * L_RESAMPLE]

\* the thickness with the change applied twice
LayerThicknessScaled_Twice(coeff) ==
    [i \in 1..Len(coeff) |-> 100 * L_RESAMPLE + 2 * coeff[i] * L_RESAMPLE]

\* L_RESAMPLE + (min_scaling_coeff * L_RESAMPLE), in hundredths of a mm
LayerThicknessScaled(coeff) ==
    [i \in 1..Len(coeff) |-> 100 * L_RESAMPLE + coeff[i] * L_RESAMPLE]

\* a fresh kernel: np.random starts from the process entropy
AnnexStart(n_samples, entropy, pit) ==
    [pc |-> "import", n_samples |-> n_samples, rng |-> entropy, pit |-> pit,
     pkl |-> <<1, 0, 0, 0>>, coeffs |-> <<>>,
     density_df |-> PitDensity(pit), relative_height |-> <<>>, smp_df |-> <<>>,
     num_sections |-> 0, random_tests |-> <<>>,
     scaled_profiles |-> <<>>, compare_profiles |-> <<>>, retrieved_skill |-> <<>>,
     min_scaling_idx |-> 0, min_scaling_coeff |-> <<>>, result |-> <<>>,
     density_k2020 |-> <<>>, plotted |-> <<>>,
     layer_thickness_scaled |-> <<>>, layer_height_scalled |-> <<>>,
     layer_thickness |-> <<>>, layer_height |-> <<>>]

\* np.random.seed(2019)
NpRandomSeed(rng, seed) == SeedState(seed)

\* the import cell: np.random.seed(2019); ..; coeffs = pickle.load(..)
ImportCell(nb) ==
    [nb EXCEPT !.pc = "profile", !.rng = NpRandomSeed(nb.rng, RANDOM_SEED),
               !.coeffs = nb.pkl]

\* density_df = density_df.assign(relative_height = ..); smp_df = ..;
\* num_sections = np.ceil(len(smp_df.index) / L_RESAMPLE).astype(int)
ProfileCell(nb) ==
    [nb EXCEPT !.pc = "draw",
               !.relative_height = RelativeHeight(Col(nb.density_df, "TOP")),
               !.smp_df = [distance     |-> [name |-> "distance", smp |-> nb.pit],
                           density      |-> FirstGuess(nb),
                           force_median |-> [name |-> "force_median", smp |-> nb.pit],
                           l            |-> [name |-> "L2012_L", smp |-> nb.pit]],
               !.num_sections = Ceil(nb.n_samples, L_RESAMPLE)]

\* one element of random_tests = [smpfunc.random_stretch(x, ..) for x in ..]
DrawCell(m, nb) ==
    LET d == RandomStretch(m, nb.rng, nb.num_sections, MAX_STRETCH_OVERALL, MAX_STRETCH_LAYER)
    IN  IF ~d.ok THEN [nb EXCEPT !.pc = "hang"]
        ELSE [nb EXCEPT !.rng = d.rng,
                        !.random_tests = Append(nb.random_tests, d.vec),
                        !.pc = IF Len(nb.random_tests) + 1 = MaxTests THEN "score" ELSE "draw"]

\* scaled_profiles = [smpfunc.scale_profile(test, distance, density, ..) ..]
ScaledProfiles(nb) ==
    [j \in 1..Len(nb.random_tests) |->
        ScaleProfile(nb.random_tests[j], nb.smp_df.distance, nb.smp_df.density)]

\* compare_profiles = [smpfunc.extract_samples(dist, rho, relative_height,
\* CUTTER_SIZE) ..], each joined with density_df
CompareProfiles(nb) ==
    LET scaled == ScaledProfiles(nb)
    IN  [j \in 1..Len(scaled) |->
            [mean_samp |-> ExtractSamples(scaled[j].dist, scaled[j].scaled,
                                          nb.relative_height, CUTTER_SIZE).mean_samp,
             pit       |-> nb.density_df]]

\* scaled_profiles, compare_profiles and retrieved_skill =
\* pd.DataFrame([smpfunc.calc_skill(profile, ..) for ..], columns = ..)
ScoreCell(nb, table) ==
    [nb EXCEPT !.pc = "select", !.scaled_profiles = ScaledProfiles(nb),
               !.compare_profiles = CompareProfiles(nb),
               !.retrieved_skill = table]

\* min_scaling_idx = ..; min_scaling_coeff = random_tests[int(min_scaling_idx)];
\* scaled_l, scaled_force_median; result = compare_profiles[..].assign(..)
SelectCell(nb) ==
    LET idx    == MinScalingIdx(nb.retrieved_skill)
        coeff  == MinScalingCoeff(nb, idx)
        len    == ScaleProfile(coeff, nb.smp_df.distance, nb.smp_df.l)
        force  == ScaleProfile(coeff, nb.smp_df.distance, nb.smp_df.force_median)
        dist   == force.dist
    IN  [nb EXCEPT !.pc = "layers", !.min_scaling_idx = idx,
                   !.min_scaling_coeff = coeff,
                   !.result =
                      [mean_samp    |-> nb.compare_profiles[idx + 1].mean_samp,
                       pit          |-> nb.compare_profiles[idx + 1].pit,
                       l            |-> ExtractSamples(dist, len.scaled,
                                           nb.relative_height, CUTTER_SIZE).mean_samp,
                       force_median |-> ExtractSamples(dist, force.scaled,
                                           nb.relative_height, CUTTER_SIZE).mean_samp,
                       scaled_l            |-> len.scaled,
                       scaled_force_median |-> force.scaled]]

\* layer_thickness_scaled, layer_height_scalled, layer_thickness, layer_height
LayersCell(nb) ==
    LET scaled == LayerThicknessScaled(nb.min_scaling_coeff)
        plain  == [i \in 1..nb.num_sections |-> L_RESAMPLE]
    IN  [nb EXCEPT !.pc = "k2020",
                   !.layer_thickness_scaled = scaled,
                   !.layer_height_scalled = CumSum(scaled),
                   !.layer_thickness = plain,
                   !.layer_height = CumSum(plain)]

\* density_k2020 = coeffs[0] + coeffs[1] * np.log(scaled_force_median)
\*   + coeffs[2] * np.log(scaled_force_median) * scaled_l + coeffs[3] * scaled_l
K2020Cell(nb) ==
    [nb EXCEPT !.pc = "plot",
               !.density_k2020 = [coeffs |-> nb.coeffs,
                                  force  |-> nb.result.scaled_force_median,
                                  l      |-> nb.result.scaled_l]]

\* ax2.plot(scaled_profiles[int(min_scaling_idx)][1],
\*          scaled_profiles[int(min_scaling_idx)][0], color = 'k')
PlotCell(nb) ==
    [nb EXCEPT !.pc = "done",
               !.plotted = <<nb.scaled_profiles[nb.min_scaling_idx + 1].scaled,
                             nb.scaled_profiles[nb.min_scaling_idx + 1].dist>>]

ProfileLengths == {L_RESAMPLE * k - k + 1 : k \in 1..MaxSections}

MatchInit ==
    /\ mt \in Multipliers
    /\ annex \in {AnnexStart(n, e, 1) : n \in ProfileLengths, e \in Entropy}
    /\ recal = Idle
    /\ recal2 = Idle
    /\ annex2 = Idle

Import ==
    /\ annex.pc = "import"
    /\ annex' = ImportCell(annex)
    /\ UNCHANGED <<recal, recal2, annex2, mt>>

Resample ==
    /\ annex.pc = "profile"
    /\ annex' = ProfileCell(annex)
    /\ UNCHANGED <<recal, recal2, annex2, mt>>

Draw ==
    /\ annex.pc = "draw"
    /\ annex' = DrawCell(mt, annex)
    /\ UNCHANGED <<recal, recal2, annex2, mt>>

Score ==
    /\ annex.pc = "score"
    /\ \E table \in SkillTables : annex' = ScoreCell(annex, table)
    /\ UNCHANGED <<recal, recal2, annex2, mt>>

Select ==
    /\ annex.pc = "select"
    /\ annex' = SelectCell(annex)
    /\ UNCHANGED <<recal, recal2, annex2, mt>>

Layers ==
    /\ annex.pc = "layers"
    /\ annex' = LayersCell(annex)
    /\ UNCHANGED <<recal, recal2, annex2, mt>>

Calibrate ==
    /\ annex.pc = "k2020"
    /\ annex' = K2020Cell(annex)
    /\ UNCHANGED <<recal, recal2, annex2, mt>>

Plot ==
    /\ annex.pc = "plot"
    /\ annex' = PlotCell(annex)
    /\ UNCHANGED <<recal, recal2, annex2, mt>>

MatchNext ==
    \/ Import
    \/ Resample
    \/ Draw
    \/ Score
    \/ Select
    \/ Layers
    \/ Calibrate
    \/ Plot

SpecMatch == MatchInit /\ [][MatchNext]_vars

---------------------------------------------------------------------------
(* Two top-to-bottom runs of both notebooks on the same input files, cell   *)
(* for cell; the runs differ in the entropy of their processes only.        *)

\* the cell at a kernel's position, for the cells that take no input
RecalCell(m, nb) ==
    CASE nb.pc = "load"       -> LoadCell(nb)
      [] nb.pc = "k20a_begin" -> FoldBegin(m, nb, nb.result, "k20a_fold")
      [] nb.pc = "k20a_fold"  -> FoldBody(nb, nb.result, "k20a_stats")
      [] nb.pc = "k20a_stats" -> K20aStats(nb)
      [] nb.pc = "k20a_coeff" -> K20aCoeff(nb)
      [] nb.pc = "k20a_rho"   -> K20aApply(nb)
      [] nb.pc = "outliers"   -> RemoveOutliers(nb)
      [] nb.pc = "k20b_begin" -> FoldBegin(m, nb, nb.result_lim, "k20b_fold")
      [] nb.pc = "k20b_fold"  -> FoldBody(nb, nb.result_lim, "k20b_stats")
      [] nb.pc = "k20b_stats" -> K20bStats(nb)
      [] nb.pc = "k20b_coeff" -> K20bCoeff(nb)
      [] nb.pc = "k20b_rho"   -> K20bApply(nb)
      [] OTHER                -> nb

\* calc_skill is deterministic in the compared profile: the candidate's
\* stretch and the files it was made of
SkillOf(pit, vec) ==
    [r |-> (SumSeq([i \in 1..Len(vec) |-> Abs(vec[i])]) + pit) % (MaxSkill + 1),
     rmse |-> (SumSeq(vec) + pit) % 2,
     rmse_corr |-> (vec[1] + pit) % 2,
     mae |-> (SumSeq(vec) + pit) % 2]

AnnexCell(m, nb) ==
    CASE nb.pc = "import"  -> ImportCell(nb)
      [] nb.pc = "profile" -> ProfileCell(nb)
      [] nb.pc = "draw"    -> DrawCell(m, nb)
      [] nb.pc = "score"   ->
            ScoreCell(nb, [j \in 1..Len(nb.random_tests) |->
                              SkillOf(CompareProfiles(nb)[j].mean_samp.values.of.smp,
                                      CompareProfiles(nb)[j].mean_samp.values.stretch)])
      [] nb.pc = "select"  -> SelectCell(nb)
      [] nb.pc = "layers"  -> LayersCell(nb)
      [] nb.pc = "k2020"   -> K2020Cell(nb)
      [] nb.pc = "plot"    -> PlotCell(nb)
      [] OTHER             -> nb

Finished(nb) == nb.pc \in {"done", "error", "hang"}

TwinFiles == {ResultFile(n, shape) : n \in (MaxRows - 1)..MaxRows, shape \in 1..MaxShape}

Pits == 1..2

TwinInit ==
    /\ mt \in Multipliers
    /\ \E file \in TwinFiles, e1 \in Entropy, e2 \in Entropy,
          n \in ProfileLengths, pit \in Pits :
          /\ recal = RecalStart(file, e1)
          /\ recal2 = RecalStart(file, e2)
          /\ annex = AnnexStart(n, e1, pit)
          /\ annex2 = AnnexStart(n, e2, pit)

TwinRecal ==
    /\ ~Finished(recal) \/ ~Finished(recal2)
    /\ recal' = RecalCell(mt, recal)
    /\ recal2' = RecalCell(mt, recal2)
    /\ UNCHANGED <<annex, annex2, mt>>

TwinAnnex ==
    /\ Finished(recal) /\ Finished(recal2)
    /\ ~Finished(annex) \/ ~Finished(annex2)
    /\ annex' = AnnexCell(mt, annex)
    /\ annex2' = AnnexCell(mt, annex2)
    /\ UNCHANGED <<recal, recal2, mt>>

TwinNext ==
    \/ TwinRecal
    \/ TwinAnnex

SpecTwin == TwinInit /\ [][TwinNext]_vars

\* C10: two top-to-bottom runs on identical input files produce the same
\* fold partitions, the same persisted coefficients, the same sampled
\* candidates and the same selected candidate index, whatever the entropy of
\* their processes.
C10_Deterministic ==
    /\ recal.pc = recal2.pc
    /\ recal.splits = recal2.splits
    /\ recal.pkl_k20a = recal2.pkl_k20a
    /\ recal.pkl_k20b = recal2.pkl_k20b
    /\ annex.pc = annex2.pc
    /\ annex.random_tests = annex2.random_tests
    /\ annex.min_scaling_idx = annex2.min_scaling_idx
    /\ annex.min_scaling_coeff = annex2.min_scaling_coeff

\* both runs are through both notebooks, from different entropy
C10_Witness ==
    /\ recal.pc = "done" /\ recal2.pc = "done"
    /\ annex.pc = "done" /\ annex2.pc = "done"
    /\ recal.entropy # recal2.entropy
    /\ recal.pkl_k20b # <<>>
    /\ annex.min_scaling_idx > 0

---------------------------------------------------------------------------
(* Two runs of the Annex_Matching notebook on the same input files and the  *)
(* same process, cell for cell; the runs differ in the coefficient vector   *)
(* found in ./output/density_k20b_coeffs.pkl only.                          *)

CoeffInit ==
    /\ mt \in Multipliers
    /\ recal = Idle
    /\ recal2 = Idle
    /\ \E n \in ProfileLengths, e \in Entropy, pit \in Pits,
          c1 \in PickledCoeffs, c2 \in PickledCoeffs :
          /\ annex = [AnnexStart(n, e, pit) EXCEPT !.pkl = c1]
          /\ annex2 = [AnnexStart(n, e, pit) EXCEPT !.pkl = c2]

CoeffAnnex ==
    /\ ~Finished(annex)
    /\ annex' = AnnexCell(mt, annex)
    /\ annex2' = AnnexCell(mt, annex2)
    /\ UNCHANGED <<recal, recal2, mt>>

SpecCoeff == CoeffInit /\ [][CoeffAnnex]_vars

\* a namespace without the names the coefficients are loaded into and
\* applied in
LessCoeffs(nb) == [nb EXCEPT !.pkl = <<>>, !.coeffs = <<>>, !.density_k2020 = <<>>]

\* C14: two runs of Annex_Matching that differ in the loaded coefficient
\* vector only draw the same candidates, score them the same, select the
\* same candidate index and make the same result rows; they differ in
\* coeffs and density_k2020 at most.  Nothing is scored before all
\* candidates are drawn.
C14_CoeffsOutOfSelection ==
    /\ LessCoeffs(annex) = LessCoeffs(annex2)
    /\ annex.min_scaling_idx = annex2.min_scaling_idx
    /\ annex.result = annex2.result
    /\ annex.pc \in {"plot", "done"} => annex.density_k2020.coeffs = annex.pkl
    /\ (annex.scaled_profiles # <<>> \/ annex.retrieved_skill # <<>>) =>
          Len(annex.random_tests) = MaxTests

\* both runs are through, a candidate other than the first is selected, and
\* the calibrated curves of the runs differ
C14_Witness ==
    /\ annex.pc = "done" /\ annex2.pc = "done"
    /\ annex.coeffs # annex2.coeffs
    /\ annex.density_k2020 # annex2.density_k2020
    /\ annex.min_scaling_idx > 0

---------------------------------------------------------------------------
(* Properties of the Annex_Matching notebook *)

Selected == annex.pc \in {"layers", "k2020", "plot", "done"}

SelectedRow == annex.retrieved_skill[annex.min_scaling_idx + 1]

\* C2: the candidate at min_scaling_idx is a maximum of the ranking: no
\* sampled candidate has a larger r, and among those with equal r none has
\* a smaller rmse_corr.
C2_SelectedIsBest ==
    Selected =>
        /\ annex.min_scaling_idx \in 0..(Len(annex.retrieved_skill) - 1)
        /\ annex.min_scaling_coeff = annex.random_tests[annex.min_scaling_idx + 1]
        /\ \A j \in 1..Len(annex.retrieved_skill) :
              /\ annex.retrieved_skill[j].r <= SelectedRow.r
              /\ annex.retrieved_skill[j].r = SelectedRow.r =>
                    annex.retrieved_skill[j].rmse_corr >= SelectedRow.rmse_corr

\* a selection that is not the first candidate, made among candidates that
\* differ in r and with a tie on the best r broken by rmse_corr
C2_Witness ==
    /\ Selected
    /\ annex.min_scaling_idx > 0
    /\ \E j \in 1..Len(annex.retrieved_skill) : annex.retrieved_skill[j].r < SelectedRow.r
    /\ \E j \in 1..Len(annex.retrieved_skill) :
          /\ annex.retrieved_skill[j].r = SelectedRow.r
          /\ annex.retrieved_skill[j].rmse_corr > SelectedRow.rmse_corr

\* C6: the selected candidate minimises RMSE: its rmse is <= the rmse of
\* every other sampled candidate.
C6_Claim ==
    Selected =>
        \A j \in 1..Len(annex.retrieved_skill) :
            SelectedRow.rmse <= annex.retrieved_skill[j].rmse

StrictlyIncreasing(s) == \A i \in 1..(Len(s) - 1) : s[i] < s[i + 1]

CutOf(column, vec, of) ==
    /\ column.values = [stretch |-> vec, of |-> of]
    /\ column.dist = [stretch |-> vec, of |-> annex.smp_df.distance]
    /\ column.heights = annex.relative_height
    /\ column.window = CUTTER_SIZE

\* C13: the matched result is of one candidate: min_scaling_coeff is the
\* stretch vector at min_scaling_idx, the density column of result is the
\* comparison made of that vector, its l and force_median columns are cut of
\* profiles stretched by that vector at the same heights and window, and
\* the plotted scaled profile is the one stretched by that vector.
C13_OneCandidate ==
    Selected =>
        LET vec == annex.random_tests[annex.min_scaling_idx + 1]
        IN  /\ annex.min_scaling_coeff = vec
            /\ annex.result.mean_samp
                  = annex.compare_profiles[annex.min_scaling_idx + 1].mean_samp
            /\ CutOf(annex.result.mean_samp, vec, annex.smp_df.density)
            /\ CutOf(annex.result.l, vec, annex.smp_df.l)
            /\ CutOf(annex.result.force_median, vec, annex.smp_df.force_median)
            /\ annex.pc = "done" =>
                  annex.plotted = <<[stretch |-> vec, of |-> annex.smp_df.density],
                                    [stretch |-> vec, of |-> annex.smp_df.distance]>>

\* the result is made and plotted of a candidate that is not the first one
\* and whose stretch vector differs from the first one's
C13_Witness ==
    /\ annex.pc = "done"
    /\ annex.min_scaling_idx > 0
    /\ annex.min_scaling_coeff # annex.random_tests[1]
    /\ annex.num_sections > 1

---------------------------------------------------------------------------
(* The heights of the pit's density samples, for every small density table  *)

\* the rows of one pit in pit_density.csv: TOP of the cutter in cm
PitTables ==
    UNION {{[i \in 1..k |-> [TOP |-> top[i], RHO |-> 2 + i]] : top \in [1..k -> 0..MaxTop]}
             : k \in 1..MaxSamples}

HeightsInit ==
    /\ mt \in Multipliers
    /\ recal = Idle
    /\ recal2 = Idle
    /\ annex2 = Idle
    /\ \E n \in ProfileLengths, e \in Entropy, table \in PitTables :
          annex = [AnnexStart(n, e, 1) EXCEPT !.density_df = table]

HeightsNext ==
    \/ Import
    \/ Resample

SpecHeights == HeightsInit /\ [][HeightsNext]_vars

HeightsMade == annex.pc = "draw"

Top(i) == annex.density_df[i].TOP

\* C15: relative_height is at least CUTTER_SIZE for every sample and is
\* CUTTER_SIZE for the samples with the largest TOP; the extraction window
\* [relative_height - CUTTER_SIZE, relative_height + CUTTER_SIZE] starts at a
\* depth of 0 or more; a sample with a larger TOP has no larger height.
C15_HeightsBelowSurface ==
    HeightsMade =>
        /\ Len(annex.relative_height) = Len(annex.density_df)
        /\ \A i \in 1..Len(annex.density_df) :
              /\ annex.relative_height[i] >= CUTTER_SIZE
              /\ annex.relative_height[i] - CUTTER_SIZE >= 0
              /\ (\A j \in 1..Len(annex.density_df) : Top(j) <= Top(i)) =>
                    annex.relative_height[i] = CUTTER_SIZE
              /\ \A j \in 1..Len(annex.density_df) :
                    Top(i) > Top(j) => annex.relative_height[i] <= annex.relative_height[j]

\* heights were made of a pit with two samples at the largest TOP and one
\* below them
C15_Witness ==
    /\ HeightsMade
    /\ \E i, j, k \in 1..Len(annex.density_df) :
          /\ i # j
          /\ Top(i) = Top(j)
          /\ Top(k) < Top(i)
          /\ annex.relative_height[i] = CUTTER_SIZE
          /\ annex.relative_height[k] > CUTTER_SIZE

=============================================================================
